---- MODULE Spec2Model ----
(***************************************************************************)
(* expo-razorpay: the useRazorpay hook (CheckoutController) and the        *)
(* RazorpayCheckout component (EmbeddedWidgetBridge).                      *)
(*                                                                         *)
(* React state is modelled as the committed values of the three useState   *)
(* cells.  One action is one event handler run to completion: the handler  *)
(* reads the values captured by the closure it was created in, queues its  *)
(* setState calls, and when it returns the queued values are committed and *)
(* the hook re-renders (RazorpayUI is recomputed) before the next event.   *)
(***************************************************************************)
EXTENDS Integers, Sequences, FiniteSets, TLC

\* ------------------------------------------------------------ bounds
MaxSessions == 2
MaxTimers == 2
MaxCalls == 2
MaxLinks == 1
\* pending timers when sessions follow each other within the clear delay
MaxDelayTimers == 3
\* sessions and pending timers per instance in the specifications with two
\* instances or with faulty hosts
MaxEachSessions == 1
MaxEachTimers == 1

\* ------------------------------------------------------------ JS values
\* Every JavaScript value is a record, so that values of different kinds
\* can be compared.
Null == [null |-> TRUE]
Undefined == [undefined |-> TRUE]
Nothing == [nothing |-> TRUE]
Str(s) == [str |-> s]
Num(n) == [num |-> n]
Fn(name) == [fn |-> name]
Bool(b) == [bool |-> b]

IsAtom(v) == DOMAIN v \subseteq {"null", "undefined", "str", "num", "fn", "nothing", "bool"}
Truthy(v) == v # Null /\ v # Undefined

\* obj.key: a missing property reads as undefined
Get(obj, key) == IF key \in DOMAIN obj THEN obj[key] ELSE Undefined

\* JSON.stringify drops properties whose value is undefined or a function;
\* the text is kept as the value JSON.parse gives back for it.
Serializable(v) == v # Undefined /\ "fn" \notin DOMAIN v

RECURSIVE JSONvalue(_)
JSONvalue(v) ==
  IF IsAtom(v) THEN v
  ELSE [k \in {f \in DOMAIN v : Serializable(v[f])} |-> JSONvalue(v[k])]

JSONstringify(v) == [json |-> JSONvalue(v)]
IsJSON(text) == "json" \in DOMAIN text
JSONparse(text) == text.json

\* ------------------------------------------------------------ inputs
\* RazorpayOptions the host passes to openCheckout
Options ==
  { [key |-> Str("k1"), amount |-> Num(500), currency |-> Str("INR"),
     order_id |-> Str("o1"), name |-> Str("Shop")],
    [key |-> Str("k1"), amount |-> Num(900), currency |-> Str("INR"),
     subscription_id |-> Str("s1"), name |-> Str("Shop"),
     handler |-> Fn("hostHandler"),
     modal |-> [ondismiss |-> Fn("hostDismiss"), confirm_close |-> Bool(TRUE)]] }

\* what checkout.js hands to options.handler
SuccessResponses ==
  { [razorpay_payment_id |-> Str("p1"), razorpay_order_id |-> Str("o1"),
     razorpay_signature |-> Str("sig1")],
    [razorpay_payment_id |-> Str("p2"), razorpay_order_id |-> Str("o1"),
     razorpay_signature |-> Str("sig2")] }

\* the error object of a payment.failed event
Errors ==
  { [code |-> Str("GATEWAY_ERROR"), source |-> Str("gateway"),
     reason |-> Str("payment_failed"), step |-> Str("payment_authorization"),
     description |-> Str("declined")],
    [code |-> Str("BAD_REQUEST_ERROR"), source |-> Str("customer"),
     reason |-> Str("payment_cancelled"), step |-> Str("payment_authentication"),
     description |-> Str("cancelled")] }

\* what checkout.js hands to the payment.failed listener
FailedResponses == { [error |-> e] : e \in Errors }

\* what the host's onSuccess / onFailure does besides taking its argument:
\* nothing, call closeCheckout(), or call openCheckout() again (retry)
HostActs == {"none", "close", "open"}

Sessions == 1..MaxSessions

\* ------------------------------------------------------------ state
VARIABLES
  isVisible,        \* useState(false)
  checkoutOptions,  \* useState<RazorpayOptions | null>(null)
  callbacks,        \* useState<CheckoutCallbacks | null>(null)
  RazorpayUI,       \* the element of the last render, or Null
  timers,           \* pending setTimeout(..., 100) callbacks
  nextId,           \* id the next stored CheckoutCallbacks object gets
  got,              \* per callbacks object: how often each host callback ran, and with what
  ended,            \* per session: how it ended
  last,             \* the handler that ran last
  fx,               \* what that handler did, in order
  links,            \* Linking.openURL promises not settled yet
  peer              \* the cells of a second useRazorpay() instance

vars == <<isVisible, checkoutOptions, callbacks, RazorpayUI, timers, nextId,
          got, ended, last, fx, links, peer>>

NoCalls == [onSuccess |-> 0, onFailure |-> 0, onClose |-> 0,
            data |-> Nothing, error |-> Nothing]

\* the part of a CheckoutCallbacks object a closeCheckout closure reads
View(cbs) == IF ~Truthy(cbs) THEN Null ELSE [id |-> cbs.id, onClose |-> cbs.onClose]

\* a CheckoutCallbacks object: onSuccess and onFailure always, onClose optional.
\* id names the openCheckout call it was passed to, act is what its
\* onSuccess/onFailure do, seen is the callbacks state of the render whose
\* openCheckout/closeCheckout the host's functions close over.
Callbacks(id, hasOnClose, act, seen) ==
  [id |-> id, onClose |-> hasOnClose, act |-> act, seen |-> seen]

\* ------------------------------------------------------------ handler runs
\* The running handler's context: the queued React state, the timers, the
\* host's record of calls and the effects so far.
Start ==
  [vis |-> isVisible, opts |-> checkoutOptions, cbs |-> callbacks,
   timers |-> timers, nextId |-> nextId, got |-> got, fx |-> <<>>,
   thrown |-> FALSE, links |-> links]

Do(ctx, e) == [ctx EXCEPT !.fx = Append(@, e)]

\* a statement throws: the rest of the handler does not run
Throw(ctx) == Do([ctx EXCEPT !.thrown = TRUE], "throw")

setIsVisible(ctx, v) ==
  Do([ctx EXCEPT !.vis = v], IF v THEN "setIsVisible(true)" ELSE "setIsVisible(false)")
setCheckoutOptions(ctx, o) == Do([ctx EXCEPT !.opts = o], "setCheckoutOptions")
setCallbacks(ctx, c) == Do([ctx EXCEPT !.cbs = c], "setCallbacks")
setTimeout(ctx) == Do([ctx EXCEPT !.timers = @ + 1], "setTimeout")

\* the host's onClose
hostOnClose(ctx, id) ==
  Do([ctx EXCEPT !.got[id].onClose = @ + 1], "onClose")

\* (mutant) cleanup that forgets setIsVisible(false)
cleanupKeepsVisible(ctx) ==
  IF ctx.thrown THEN ctx
  ELSE setTimeout(ctx)

\* (mutant) cleanup that hides the surface and never schedules the clear
cleanupForgetsTimer(ctx) ==
  IF ctx.thrown THEN ctx ELSE setIsVisible(ctx, FALSE)

\* (mutant) cleanup that schedules the clear twice
cleanupSchedulesTwice(ctx) ==
  IF ctx.thrown THEN ctx
  ELSE setTimeout(setTimeout(setIsVisible(ctx, FALSE)))

\* useRazorpay: cleanup
cleanup(ctx) ==
  IF ctx.thrown THEN ctx
  ELSE setTimeout(setIsVisible(ctx, FALSE))

\* (mutant) openCheckout without the `if (isVisible) return` throttle
openCheckoutUnguarded(ctx, snapVisible, options, cbs) ==
  IF ctx.thrown THEN ctx
  ELSE setIsVisible(
         setCallbacks(
           setCheckoutOptions(ctx, options),
           cbs),
         TRUE)

\* (mutant) openCheckout that stores the options but not the callbacks
openCheckoutDropsCallbacks(ctx, snapVisible, options, cbs) ==
  IF ctx.thrown \/ snapVisible THEN ctx
  ELSE setIsVisible(setCheckoutOptions(ctx, options), TRUE)

\* useRazorpay: openCheckout, in the closure of a render where isVisible was
\* snapVisible
openCheckout(ctx, snapVisible, options, cbs) ==
  IF ctx.thrown \/ snapVisible THEN ctx
  ELSE setIsVisible(
         setCallbacks(
           setCheckoutOptions(ctx, options),
           cbs),
         TRUE)

\* (mutant) closeCheckout that clears the stored request at once, before
\* onClose runs, instead of scheduling the clear
closeCheckoutClearsNow(ctx, snapCallbacks) ==
  IF ctx.thrown THEN ctx
  ELSE LET c1 == setCheckoutOptions(setCallbacks(setIsVisible(ctx, FALSE), Null), Null)
       IN  IF Truthy(snapCallbacks) /\ snapCallbacks.onClose
           THEN hostOnClose(c1, snapCallbacks.id)
           ELSE c1

\* (mutant) closeCheckout that forgets setIsVisible(false)
closeCheckoutKeepsVisible(ctx, snapCallbacks) ==
  IF ctx.thrown THEN ctx
  ELSE setTimeout(IF Truthy(snapCallbacks) /\ snapCallbacks.onClose
                  THEN hostOnClose(ctx, snapCallbacks.id)
                  ELSE ctx)

\* (mutant) closeCheckout that calls callbacks.onClose() without testing
\* that it is there: a TypeError when the host left it out
closeCheckoutCallsUnchecked(ctx, snapCallbacks) ==
  IF ctx.thrown THEN ctx
  ELSE LET c1 == setIsVisible(ctx, FALSE)
       IN  IF ~Truthy(snapCallbacks) THEN setTimeout(c1)
           ELSE IF snapCallbacks.onClose
                THEN setTimeout(hostOnClose(c1, snapCallbacks.id))
                ELSE Throw(c1)

\* useRazorpay: closeCheckout, in the closure of a render where callbacks was
\* snapCallbacks
closeCheckout(ctx, snapCallbacks) ==
  IF ctx.thrown THEN ctx
  ELSE LET c1 == setIsVisible(ctx, FALSE)
           c2 == IF Truthy(snapCallbacks) /\ snapCallbacks.onClose
                 THEN hostOnClose(c1, snapCallbacks.id)
                 ELSE c1
       IN  setTimeout(c2)

\* The host's onSuccess / onFailure bodies after they took their argument.
\* They were created in the handler that called openCheckout, so the
\* closeCheckout they call reads that render's callbacks (cbs.seen) and the
\* openCheckout they call reads that render's isVisible, which was false;
\* a retry passes the options again with callbacks of the same shape.
\* A faulty host callback ("throw") throws instead.
hostAct(ctx, cbs, options) ==
  CASE cbs.act = "none" -> ctx
    [] cbs.act = "throw" -> Throw(ctx)
    [] cbs.act = "close" -> closeCheckout(ctx, cbs.seen)
    [] cbs.act = "open" ->
         [openCheckout(ctx, FALSE, options,
                       Callbacks(ctx.nextId, cbs.onClose, cbs.act, cbs.seen))
            EXCEPT !.nextId = @ + 1]

hostOnSuccess(ctx, cbs, options, data) ==
  hostAct(Do([ctx EXCEPT !.got[cbs.id].onSuccess = @ + 1,
                         !.got[cbs.id].data = data], "onSuccess"),
          cbs, options)

hostOnFailure(ctx, cbs, options, error) ==
  hostAct(Do([ctx EXCEPT !.got[cbs.id].onFailure = @ + 1,
                         !.got[cbs.id].error = error], "onFailure"),
          cbs, options)

\* (mutant) an onSuccess prop that cleans up in a finally block
uiOnSuccessFinally(ctx, ui, data) ==
  setTimeout(setIsVisible(hostOnSuccess(ctx, ui.callbacks, ui.options, data), FALSE))

\* (mutant) an onSuccess prop that cleans up first and tells the host after
uiOnSuccessCleansFirst(ctx, ui, data) ==
  hostOnSuccess(cleanup(ctx), ui.callbacks, ui.options, data)

\* useRazorpay: the onSuccess prop of the rendered element ui
uiOnSuccess(ctx, ui, data) ==
  cleanup(hostOnSuccess(ctx, ui.callbacks, ui.options, data))

\* useRazorpay: the onFailure prop of the rendered element ui; error.error
\* of undefined or null is a TypeError
uiOnFailure(ctx, ui, error) ==
  IF ~Truthy(error) THEN Throw(ctx)
  ELSE cleanup(hostOnFailure(ctx, ui.callbacks, ui.options, Get(error, "error")))

\* (mutant) a dismissal reported to the host as a failure
uiOnCloseAsFailure(ctx, ui) ==
  cleanup(hostOnFailure(ctx, ui.callbacks, ui.options, Undefined))

\* useRazorpay: the onClose prop of the rendered element ui
uiOnClose(ctx, ui) == closeCheckout(ctx, ui.callbacks)

\* (mutant) a success handler that posts the SUCCESS / payload shape of the
\* RazorpayMessage type
PostSuccessAsTyped(response) ==
  JSONstringify([type |-> Str("SUCCESS"), payload |-> response])

\* RazorpayCheckout: the script injected into the WebView posts these
PostSuccess(response) ==
  JSONstringify([type |-> Str("PAYMENT_SUCCESS"), data |-> response])
PostDismiss ==
  JSONstringify([type |-> Str("PAYMENT_CLOSED")])
PostFailed(response) ==
  JSONstringify([type |-> Str("PAYMENT_FAILED"), error |-> Get(response, "error")])

WidgetPosts ==
  {PostSuccess(r) : r \in SuccessResponses}
    \cup {PostFailed(r) : r \in FailedResponses}
    \cup {PostDismiss}

\* (mutant) handleMessage reading the success payload from message.payload
handleMessagePayloadField(ctx, ui, data) ==
  IF ~IsJSON(data) THEN Throw(ctx)
  ELSE LET message == JSONparse(data)
           type == Get(message, "type")
       IN  IF type = Str("PAYMENT_SUCCESS") THEN uiOnSuccess(ctx, ui, Get(message, "payload"))
           ELSE IF type = Str("PAYMENT_FAILED") THEN uiOnFailure(ctx, ui, Get(message, "error"))
           ELSE IF type = Str("PAYMENT_CLOSED") THEN uiOnClose(ctx, ui)
           ELSE ctx

\* (mutant) handleMessage that catches the parse error and reports it to
\* the host as a failure
handleMessageCatchesParseError(ctx, ui, data) ==
  IF ~IsJSON(data) THEN uiOnFailure(ctx, ui, [error |-> Undefined])
  ELSE LET message == JSONparse(data)
           type == Get(message, "type")
       IN  IF type = Str("PAYMENT_SUCCESS") THEN uiOnSuccess(ctx, ui, Get(message, "data"))
           ELSE IF type = Str("PAYMENT_FAILED") THEN uiOnFailure(ctx, ui, Get(message, "error"))
           ELSE IF type = Str("PAYMENT_CLOSED") THEN uiOnClose(ctx, ui)
           ELSE ctx

\* (mutant) handleMessage whose last branch treats any other tag as a
\* dismissal
handleMessageDefaultCloses(ctx, ui, data) ==
  IF ~IsJSON(data) THEN Throw(ctx)
  ELSE LET message == JSONparse(data)
           type == Get(message, "type")
       IN  IF type = Str("PAYMENT_SUCCESS") THEN uiOnSuccess(ctx, ui, Get(message, "data"))
           ELSE IF type = Str("PAYMENT_FAILED") THEN uiOnFailure(ctx, ui, Get(message, "error"))
           ELSE uiOnClose(ctx, ui)

\* (mutant) handleMessage that answers PAYMENT_CLOSED with the cleanup of a
\* terminal result instead of the onClose path
handleMessageDismissCleansUp(ctx, ui, data) ==
  IF ~IsJSON(data) THEN Throw(ctx)
  ELSE LET message == JSONparse(data)
           type == Get(message, "type")
       IN  IF type = Str("PAYMENT_SUCCESS") THEN uiOnSuccess(ctx, ui, Get(message, "data"))
           ELSE IF type = Str("PAYMENT_FAILED") THEN uiOnFailure(ctx, ui, Get(message, "error"))
           ELSE IF type = Str("PAYMENT_CLOSED") THEN cleanup(ctx)
           ELSE ctx

\* RazorpayCheckout: handleMessage
handleMessage(ctx, ui, data) ==
  IF ~IsJSON(data) THEN Throw(ctx)
  ELSE LET message == JSONparse(data)
           type == Get(message, "type")
       IN  IF type = Str("PAYMENT_SUCCESS") THEN uiOnSuccess(ctx, ui, Get(message, "data"))
           ELSE IF type = Str("PAYMENT_FAILED") THEN uiOnFailure(ctx, ui, Get(message, "error"))
           ELSE IF type = Str("PAYMENT_CLOSED") THEN uiOnClose(ctx, ui)
           ELSE ctx

\* how a message of this text ends the session on screen
Ending(data) ==
  LET type == IF IsJSON(data) THEN Get(JSONparse(data), "type") ELSE Undefined
  IN  IF type = Str("PAYMENT_SUCCESS") THEN "success"
      ELSE IF type = Str("PAYMENT_FAILED") THEN "failed"
      ELSE IF type = Str("PAYMENT_CLOSED") THEN "dismissed"
      ELSE ""

\* ------------------------------------------------------------ mount
\* RazorpayCheckout: const { handler, ...optionsWithoutHandler } = options
optionsWithoutHandler(options) ==
  [k \in DOMAIN options \ {"handler"} |-> options[k]]

\* RazorpayCheckout: the text injected as `var options = ...` in the page
optionsString(options) == JSONstringify(optionsWithoutHandler(options))

\* the two functions the injected script defines
BridgeHandler == Fn("postPaymentSuccess")
BridgeOnDismiss == Fn("postPaymentClosed")

\* (mutant) an injected script that attaches no handler
WidgetOptionsNoHandler(options) ==
  LET parsed == JSONparse(optionsString(options))
  IN  [k \in DOMAIN parsed \cup {"modal"} |->
         IF k = "modal" THEN [ondismiss |-> BridgeOnDismiss]
         ELSE parsed[k]]

\* the injected script: the object handed to new Razorpay(options)
WidgetOptions(options) ==
  LET parsed == JSONparse(optionsString(options))
  IN  [k \in DOMAIN parsed \cup {"handler", "modal"} |->
         IF k = "handler" THEN BridgeHandler
         ELSE IF k = "modal" THEN [ondismiss |-> BridgeOnDismiss]
         ELSE parsed[k]]

\* ------------------------------------------------------------ navigation
\* URLs are sequences of characters, so that startsWith is a prefix test.
StartsWith(str, prefix) ==
  Len(str) >= Len(prefix) /\ SubSeq(str, 1, Len(prefix)) = prefix

HTTP == <<"h", "t", "t", "p">>
HTTPS == <<"h", "t", "t", "p", "s">>
AboutBlank == <<"a", "b", "o", "u", "t", ":", "b", "l", "a", "n", "k">>

\* URLs the content of the WebView asks to load
URLs ==
  { <<"u", "p", "i", ":", "/", "/", "p", "a", "y", "?">>,
    <<"t", "e", "z", ":", "/", "/", "u", "p", "i">>,
    <<"h", "t", "t", "p", "s", ":", "/", "/", "c", ".", "e", "x">>,
    <<"h", "t", "t", "p", ":", "/", "/", "c", ".", "e", "x">>,
    <<"h", "t", "t", "p", "x", ":", "/", "/", "p", "a", "y">>,
    AboutBlank }

\* the scheme of a URL: what precedes its first ":"
Scheme(url) ==
  LET colon == CHOOSE i \in 1..Len(url) :
                 url[i] = ":" /\ \A j \in 1..(i - 1) : url[j] # ":"
  IN  SubSeq(url, 1, colon - 1)

\* Linking.openURL(url): returns a promise that settles later
LinkingOpenURL(ctx, url) == Do([ctx EXCEPT !.links = @ + 1], "Linking.openURL")

\* RazorpayCheckout: handleNavigation
handleNavigation(ctx, url) ==
  IF /\ ~StartsWith(url, HTTP)
     /\ ~StartsWith(url, HTTPS)
     /\ ~StartsWith(url, AboutBlank)
  THEN Do(LinkingOpenURL(ctx, url), "return false")
  ELSE Do(ctx, "return true")

\* (mutant) a failed dispatch reported to the host as a payment failure
catchOpenURLAsFailure(ctx, ui) ==
  IF ui # Null
  THEN uiOnFailure(Do(ctx, "console.error"), ui, [error |-> Undefined])
  ELSE Do(ctx, "console.error")

\* RazorpayCheckout: the .catch callback of Linking.openURL(url); ui is the
\* element mounted when the promise rejects
catchOpenURL(ctx, ui) == Do(ctx, "console.error")

\* (mutant) a timer body that nulls the callbacks and keeps the request
clearStateKeepsOptions(ctx) == setCallbacks(ctx, Null)

\* the body of the timer both cleanup and closeCheckout schedule
clearState(ctx) == setCheckoutOptions(setCallbacks(ctx, Null), Null)

\* (mutant) RazorpayUI that does not look at isVisible
RenderIgnoresVisible(vis, opts, cbs) ==
  IF Truthy(opts) /\ Truthy(cbs)
  THEN [options |-> opts, callbacks |-> cbs]
  ELSE Null

\* useRazorpay: the RazorpayUI expression of a render
Render(vis, opts, cbs) ==
  IF vis /\ Truthy(opts) /\ Truthy(cbs)
  THEN [options |-> opts, callbacks |-> cbs]
  ELSE Null

\* ------------------------------------------------------------ commit
Bounded(ctx) ==
  /\ ctx.timers <= MaxTimers
  /\ ctx.links <= MaxLinks
  /\ ctx.nextId <= MaxSessions + 1
  /\ \A s \in Sessions :
       /\ ctx.got[s].onClose <= MaxCalls
       /\ ctx.got[s].onSuccess <= MaxCalls
       /\ ctx.got[s].onFailure <= MaxCalls

\* The handler returned: React applies the queued state and re-renders.
\* how/s: the session s (0: none) this handler ended, and how.
Apply(ctx, op, s, how) ==
  /\ isVisible' = ctx.vis
  /\ checkoutOptions' = ctx.opts
  /\ callbacks' = ctx.cbs
  /\ RazorpayUI' = Render(ctx.vis, ctx.opts, ctx.cbs)
  /\ timers' = ctx.timers
  /\ nextId' = ctx.nextId
  /\ got' = ctx.got
  /\ fx' = ctx.fx
  /\ links' = ctx.links
  /\ peer' = peer
  /\ last' = op
  /\ ended' =
       [x \in Sessions |->
          IF x = s /\ ended[x] = "open" /\ how # "" THEN how
          ELSE IF ~isVisible /\ ctx.vis /\ Truthy(ctx.cbs) /\ x = ctx.cbs.id THEN "open"
          ELSE ended[x]]

Commit(ctx, op, s, how) == Bounded(ctx) /\ Apply(ctx, op, s, how)

\* the session on screen, 0 if none
Current ==
  IF isVisible /\ Truthy(callbacks) THEN callbacks.id ELSE 0

Init ==
  /\ isVisible = FALSE
  /\ checkoutOptions = Null
  /\ callbacks = Null
  /\ RazorpayUI = Null
  /\ timers = 0
  /\ nextId = 1
  /\ got = [s \in Sessions |-> NoCalls]
  /\ ended = [s \in Sessions |-> "unopened"]
  /\ last = [op |-> "init", in |-> Nothing]
  /\ fx = <<>>
  /\ links = 0
  /\ peer = [vis |-> FALSE, opts |-> Null, cbs |-> Null, ui |-> Null,
             timers |-> 0, nextId |-> 1, got |-> [s \in Sessions |-> NoCalls]]

\* ------------------------------------------------------------ host calls
\* The host calls openCheckout(options, cbs) of the current render.
OpenCheckout(o, hasOnClose, act) ==
  /\ isVisible \/ nextId <= MaxSessions
  /\ LET cbs == Callbacks(nextId, hasOnClose, act, View(callbacks))
         c1 == openCheckout(Start, isVisible, o, cbs)
         c2 == IF isVisible THEN c1 ELSE [c1 EXCEPT !.nextId = @ + 1]
     IN  Commit(c2, [op |-> "openCheckout", in |-> o], 0, "")

\* The host calls closeCheckout() of the current render.
CloseCheckout ==
  Commit(closeCheckout(Start, callbacks),
         [op |-> "closeCheckout", in |-> Nothing], Current, "closed")

\* A pending timer fires.
TimerFires ==
  /\ timers > 0
  /\ Commit(clearState([Start EXCEPT !.timers = @ - 1]),
            [op |-> "timer", in |-> Nothing], 0, "")

\* ------------------------------------------------------------ widget events
\* The WebView delivers a message the widget script posted to the mounted
\* RazorpayCheckout.
Message(data) ==
  /\ RazorpayUI # Null
  /\ Commit(handleMessage(Start, RazorpayUI, data),
            [op |-> "message", in |-> data],
            RazorpayUI.callbacks.id, Ending(data))

\* The user's back action on the mounted Modal: onRequestClose={onClose}.
RequestClose ==
  /\ RazorpayUI # Null
  /\ Commit(uiOnClose(Start, RazorpayUI),
            [op |-> "requestClose", in |-> Nothing],
            RazorpayUI.callbacks.id, "dismissed")

Next ==
  \/ \E o \in Options, hasOnClose \in BOOLEAN, act \in HostActs :
       OpenCheckout(o, hasOnClose, act)
  \/ CloseCheckout
  \/ TimerFires
  \/ \E data \in WidgetPosts : Message(data)
  \/ RequestClose

Spec == Init /\ [][Next]_vars

\* A timer set with setTimeout is run by the event loop once its delay has
\* passed: a pending clear is not postponed for ever.
SpecFair == Spec /\ WF_vars(TimerFires)

\* ------------------------------------------------------------ rapid calls
\* The host calls openCheckout twice before React re-renders (two taps
\* handled in one batch, or two calls in one handler): both calls are the
\* openCheckout of the same render and read the same isVisible.
OpenCheckoutTwice(o1, o2, hasOnClose) ==
  /\ isVisible \/ nextId + 1 <= MaxSessions
  /\ LET cbs1 == Callbacks(nextId, hasOnClose, "none", View(callbacks))
         cbs2 == Callbacks(nextId + 1, hasOnClose, "none", View(callbacks))
         c1 == openCheckout(Start, isVisible, o1, cbs1)
         c2 == openCheckout(c1, isVisible, o2, cbs2)
         c3 == IF isVisible THEN c2 ELSE [c2 EXCEPT !.nextId = @ + 2]
     IN  Commit(c3, [op |-> "openCheckoutTwice", in |-> o1], 0, "")

NextRapid ==
  \/ Next
  \/ \E o1, o2 \in Options, hasOnClose \in BOOLEAN : OpenCheckoutTwice(o1, o2, hasOnClose)

SpecRapid == Init /\ [][NextRapid]_vars

\* ------------------------------------------------------------ narrowed inputs
\* one request, and one post of each kind, for the larger specifications
EachOptions == {o \in Options : "order_id" \in DOMAIN o}
EachPosts ==
  { PostSuccess(CHOOSE r \in SuccessResponses : r.razorpay_payment_id = Str("p1")),
    PostFailed(CHOOSE r \in FailedResponses : r.error.code = Str("GATEWAY_ERROR")),
    PostDismiss }

\* ------------------------------------------------------------ faulty hosts
\* A host whose onSuccess and onFailure may throw.
NextFault ==
  /\ \/ \E o \in EachOptions, hasOnClose \in BOOLEAN, act \in {"none", "throw"} :
          OpenCheckout(o, hasOnClose, act)
     \/ CloseCheckout
     \/ TimerFires
     \/ \E data \in EachPosts : Message(data)
     \/ RequestClose
  /\ nextId' <= MaxEachSessions + 1
  /\ timers' <= MaxEachTimers

SpecFault == Init /\ [][NextFault]_vars

\* ------------------------------------------------------------ quick succession
\* The same host calls and widget events, followed further into the 100 ms
\* delay of the deferred clear: a host whose onSuccess/onFailure calls
\* closeCheckout(), and up to MaxDelayTimers clears pending at once.
DelayBounded(ctx) ==
  /\ ctx.timers <= MaxDelayTimers
  /\ ctx.nextId <= MaxSessions + 1
  /\ \A s \in Sessions :
       /\ ctx.got[s].onClose <= MaxCalls
       /\ ctx.got[s].onSuccess <= MaxCalls
       /\ ctx.got[s].onFailure <= MaxCalls

DelayCommit(ctx, op, s, how) == DelayBounded(ctx) /\ Apply(ctx, op, s, how)

DelayOpenCheckout(o, hasOnClose, act) ==
  /\ isVisible \/ nextId <= MaxSessions
  /\ LET cbs == Callbacks(nextId, hasOnClose, act, View(callbacks))
         c1 == openCheckout(Start, isVisible, o, cbs)
         c2 == IF isVisible THEN c1 ELSE [c1 EXCEPT !.nextId = @ + 1]
     IN  DelayCommit(c2, [op |-> "openCheckout", in |-> o], 0, "")

DelayCloseCheckout ==
  DelayCommit(closeCheckout(Start, callbacks),
              [op |-> "closeCheckout", in |-> Nothing], Current, "closed")

DelayTimerFires ==
  /\ timers > 0
  /\ DelayCommit(clearState([Start EXCEPT !.timers = @ - 1]),
                 [op |-> "timer", in |-> Nothing], 0, "")

DelayMessage(data) ==
  /\ RazorpayUI # Null
  /\ DelayCommit(handleMessage(Start, RazorpayUI, data),
                 [op |-> "message", in |-> data],
                 RazorpayUI.callbacks.id, Ending(data))

NextDelay ==
  \/ \E o \in EachOptions, hasOnClose \in BOOLEAN, act \in {"none", "close"} :
       DelayOpenCheckout(o, hasOnClose, act)
  \/ DelayCloseCheckout
  \/ DelayTimerFires
  \/ \E data \in EachPosts : DelayMessage(data)

SpecDelay == Init /\ [][NextDelay]_vars

\* ------------------------------------------------------------ two instances
\* A second component calls useRazorpay() too: the call gives it useState
\* cells, closures and a RazorpayUI of its own. The handlers are the same
\* functions, run on that instance's cells.
PeerStart ==
  [vis |-> peer.vis, opts |-> peer.opts, cbs |-> peer.cbs,
   timers |-> peer.timers, nextId |-> peer.nextId, got |-> peer.got,
   fx |-> <<>>, thrown |-> FALSE, links |-> links]

EachBounded(ctx) ==
  /\ ctx.nextId <= MaxEachSessions + 1
  /\ ctx.timers <= MaxEachTimers
  /\ \A s \in Sessions :
       /\ ctx.got[s].onClose <= MaxCalls
       /\ ctx.got[s].onSuccess <= MaxCalls
       /\ ctx.got[s].onFailure <= MaxCalls

\* (mutant) one isVisible shared by every instance, as a provider-wide
\* "single global checkout" would have
PeerCommitSharedVisible(ctx, op) ==
  /\ EachBounded(ctx)
  /\ peer' = [vis |-> ctx.vis, opts |-> ctx.opts, cbs |-> ctx.cbs,
              ui |-> Render(ctx.vis, ctx.opts, ctx.cbs),
              timers |-> ctx.timers, nextId |-> ctx.nextId, got |-> ctx.got]
  /\ isVisible' = ctx.vis
  /\ RazorpayUI' = Render(ctx.vis, checkoutOptions, callbacks)
  /\ fx' = ctx.fx
  /\ last' = op
  /\ UNCHANGED <<checkoutOptions, callbacks, timers, nextId,
                 got, ended, links>>

\* The second instance's handler returned: React applies its queued state
\* to its cells and re-renders its component.
PeerCommit(ctx, op) ==
  /\ EachBounded(ctx)
  /\ peer' = [vis |-> ctx.vis, opts |-> ctx.opts, cbs |-> ctx.cbs,
              ui |-> Render(ctx.vis, ctx.opts, ctx.cbs),
              timers |-> ctx.timers, nextId |-> ctx.nextId, got |-> ctx.got]
  /\ fx' = ctx.fx
  /\ last' = op
  /\ UNCHANGED <<isVisible, checkoutOptions, callbacks, RazorpayUI, timers,
                 nextId, got, ended, links>>

PeerOpenCheckout(o, hasOnClose) ==
  LET cbs == Callbacks(peer.nextId, hasOnClose, "none", View(peer.cbs))
      c1 == openCheckout(PeerStart, peer.vis, o, cbs)
      c2 == IF peer.vis THEN c1 ELSE [c1 EXCEPT !.nextId = @ + 1]
  IN  PeerCommit(c2, [op |-> "peerOpenCheckout", in |-> o])

PeerCloseCheckout ==
  PeerCommit(closeCheckout(PeerStart, peer.cbs),
             [op |-> "peerCloseCheckout", in |-> Nothing])

PeerTimerFires ==
  /\ peer.timers > 0
  /\ PeerCommit(clearState([PeerStart EXCEPT !.timers = @ - 1]),
                [op |-> "peerTimer", in |-> Nothing])

PeerMessage(data) ==
  /\ peer.ui # Null
  /\ PeerCommit(handleMessage(PeerStart, peer.ui, data),
                [op |-> "peerMessage", in |-> data])

\* the first instance, within the same bounds
EachStep ==
  /\ \/ \E o \in EachOptions, hasOnClose \in BOOLEAN : OpenCheckout(o, hasOnClose, "none")
     \/ CloseCheckout
     \/ TimerFires
     \/ \E data \in EachPosts : Message(data)
  /\ nextId' <= MaxEachSessions + 1
  /\ timers' <= MaxEachTimers

NextTwo ==
  \/ EachStep
  \/ \E o \in EachOptions, hasOnClose \in BOOLEAN : PeerOpenCheckout(o, hasOnClose)
  \/ PeerCloseCheckout
  \/ PeerTimerFires
  \/ \E data \in EachPosts : PeerMessage(data)

SpecTwo == Init /\ [][NextTwo]_vars

\* ------------------------------------------------------------ other messages
\* Messages that carry none of the three tags handleMessage acts on: the
\* READY of the RazorpayMessage type, a tag the Bridge does not know, and a
\* message without a type.
InfoPosts ==
  { JSONstringify([type |-> Str("READY")]),
    JSONstringify([type |-> Str("PAYMENT_PENDING")]),
    JSONstringify([note |-> Str("loaded")]) }

NextInfo ==
  \/ Next
  \/ \E data \in InfoPosts : Message(data)

SpecInfo == Init /\ [][NextInfo]_vars

\* ------------------------------------------------------------ undecodable messages
\* Text that is not JSON, posted by the page or by checkout.js itself:
\* JSON.parse throws a SyntaxError for it.
BadPosts == { [text |-> "PAYMENT_SUCCESS"], [text |-> "{type:"], [text |-> ""] }

NextBad ==
  \/ Next
  \/ \E data \in BadPosts : Message(data)

SpecBad == Init /\ [][NextBad]_vars

\* ------------------------------------------------------------ navigation events
\* The mounted WebView asks whether to load url:
\* onShouldStartLoadWithRequest={handleNavigation}.
Navigate(url) ==
  /\ RazorpayUI # Null
  /\ Commit(handleNavigation(Start, url), [op |-> "navigate", in |-> url], 0, "")

\* The OS opened the link: the promise resolves, nothing is attached to it.
LinkResolves ==
  /\ links > 0
  /\ Commit([Start EXCEPT !.links = @ - 1],
            [op |-> "linkResolved", in |-> Nothing], 0, "")

\* The OS could not open the link: the promise rejects.
LinkRejects ==
  /\ links > 0
  /\ Commit(catchOpenURL([Start EXCEPT !.links = @ - 1], RazorpayUI),
            [op |-> "linkRejected", in |-> Nothing], 0, "")

NextNav ==
  \/ Next
  \/ \E url \in URLs : Navigate(url)
  \/ LinkResolves
  \/ LinkRejects

SpecNav == Init /\ [][NextNav]_vars

\* ------------------------------------------------------------ untyped hosts
\* A JavaScript host can pass anything: openCheckout(undefined, cbs),
\* openCheckout(options) with the callbacks left out.
LooseOptions == Options \cup {Undefined}
LooseCallbacks ==
  {Callbacks(nextId, h, "none", View(callbacks)) : h \in BOOLEAN} \cup {Undefined}

OpenCheckoutLoose(o, cbs) ==
  /\ isVisible \/ nextId <= MaxSessions
  /\ LET c1 == openCheckout(Start, isVisible, o, cbs)
         c2 == IF isVisible \/ cbs = Undefined THEN c1 ELSE [c1 EXCEPT !.nextId = @ + 1]
     IN  Commit(c2, [op |-> "openCheckout", in |-> o], 0, "")

\* RazorpayCheckout: `const { handler, ...optionsWithoutHandler } = options`
\* is a TypeError when the mounted element's options are undefined or null
MountFaults(ui) == ui # Null /\ ~Truthy(ui.options)

\* the last handler, or the render that followed it, threw
Faulted ==
  \/ "throw" \in {fx[i] : i \in DOMAIN fx}
  \/ MountFaults(RazorpayUI)

NextLoose ==
  \/ Next
  \/ \E o \in LooseOptions, cbs \in LooseCallbacks : OpenCheckoutLoose(o, cbs)

SpecLoose == Init /\ [][NextLoose]_vars

\* ------------------------------------------------------------ claims
Terminal(s) == got[s].onSuccess + got[s].onFailure

C2_TerminalAtMostOnce ==
  \A s \in Sessions : Terminal(s) <= 1

C2_Witness ==
  /\ \A s \in Sessions : Terminal(s) = 1
  /\ last.op = "message"

\* C3 (as claimed): a step that runs a session's onClose never happens once
\* that session's onSuccess or onFailure has run.
C3_NoCloseAfterTerminal ==
  [][\A s \in Sessions :
       got'[s].onClose > got[s].onClose => got'[s].onSuccess + got'[s].onFailure = 0]_vars

\* C4: a SUCCESS message with response r delivered to the mounted session s
\* runs s's onSuccess, for the first time, with r, leaves onFailure not run,
\* and commits isVisible = false; a session ended by SUCCESS has onSuccess
\* run once with a widget response and onFailure never.
C4_SuccessDelivery ==
  /\ [][\A r \in SuccessResponses :
          (last'.op = "message" /\ last'.in = PostSuccess(r))
            => LET s == RazorpayUI.callbacks.id
               IN  /\ got[s].onSuccess = 0 /\ got'[s].onSuccess = 1
                   /\ got'[s].data = r
                   /\ got'[s].onFailure = 0
                   /\ ~isVisible']_vars
  /\ [](\A s \in Sessions :
          ended[s] = "success"
            => /\ got[s].onSuccess = 1 /\ got[s].onFailure = 0
               /\ got[s].data \in SuccessResponses)

C4_Witness ==
  \E s \in Sessions :
    /\ last.op = "message" /\ ended[s] = "success"
    /\ last.in = PostSuccess(got[s].data)
    /\ ~isVisible /\ "onSuccess" \in {fx[i] : i \in DOMAIN fx}

\* C5 (as claimed): a payment.failed event with response r, posted by the
\* widget script and delivered to the mounted session s, runs s's onFailure
\* once with r.error itself and leaves onSuccess not run.
C5_FailureVerbatim ==
  [][\A r \in FailedResponses :
       (last'.op = "message" /\ last'.in = PostFailed(r))
         => LET s == RazorpayUI.callbacks.id
            IN  /\ got'[s].onFailure = 1
                /\ got'[s].error = r.error
                /\ got'[s].onSuccess = 0]_vars

\* C6: a DISMISSED message delivered to a mounted session s that has an
\* onClose runs that onClose (and no other host callback), commits
\* isVisible = false, and s's onSuccess and onFailure have not run; a
\* dismissed session never has onSuccess or onFailure run.
C6_DismissRouting ==
  /\ [][(last'.op = "message" /\ last'.in = PostDismiss /\ RazorpayUI.callbacks.onClose)
          => LET s == RazorpayUI.callbacks.id
             IN  /\ got' = [got EXCEPT ![s].onClose = @ + 1]
                 /\ got'[s].onSuccess = 0 /\ got'[s].onFailure = 0
                 /\ ~isVisible']_vars
  /\ [](\A s \in Sessions : ended[s] = "dismissed" => Terminal(s) = 0)

C6_Witness ==
  \E s \in Sessions :
    /\ last.op = "message" /\ last.in = PostDismiss
    /\ ended[s] = "dismissed" /\ got[s].onClose = 1 /\ ~isVisible

\* C7 (as claimed): a closeCheckout call made while isVisible is false runs
\* no host callback and leaves isVisible false and the surface null.
C7_CloseWhenIdleIsNoOp ==
  [][(~isVisible /\ last'.op = "closeCheckout")
       => /\ got' = got
          /\ ~isVisible' /\ RazorpayUI' = Null]_vars

\* C8 (as claimed): whenever isVisible is true, options and callbacks are
\* stored and the surface is mounted.
C8_ActiveMeansMounted ==
  isVisible => /\ checkoutOptions # Null /\ callbacks # Null
               /\ RazorpayUI # Null

\* C9: the rendered surface is non-null exactly when isVisible is true and
\* both options and callbacks are stored, and then shows exactly those.
C9_SurfaceIffVisibleAndStored ==
  /\ RazorpayUI # Null <=> (isVisible /\ checkoutOptions # Null /\ callbacks # Null)
  /\ RazorpayUI # Null => /\ RazorpayUI.options = checkoutOptions
                          /\ RazorpayUI.callbacks = callbacks

C9_Witness ==
  /\ ~isVisible /\ checkoutOptions # Null /\ callbacks # Null
  /\ RazorpayUI = Null

\* C10: closeCheckout run while isVisible is true (called by the host, or as
\* the surface's onClose for a dismissal or a back action) does, in this
\* order, setIsVisible(false), the stored onClose if there is one, and
\* setTimeout; it leaves the stored options and callbacks as they were.
C10_CloseEffectOrder ==
  [][(/\ isVisible
      /\ \/ last'.op \in {"closeCheckout", "requestClose"}
         \/ (last'.op = "message" /\ last'.in = PostDismiss))
       => /\ fx' = IF callbacks # Null /\ callbacks.onClose
                   THEN <<"setIsVisible(false)", "onClose", "setTimeout">>
                   ELSE <<"setIsVisible(false)", "setTimeout">>
          /\ ~isVisible'
          /\ timers' = timers + 1
          /\ checkoutOptions' = checkoutOptions /\ callbacks' = callbacks]_vars

C10_Witness ==
  /\ last.op = "closeCheckout"
  /\ fx = <<"setIsVisible(false)", "onClose", "setTimeout">>
  /\ callbacks # Null /\ ended[callbacks.id] = "closed"

\* C11: an openCheckout(o, cbs) call of the current render made while
\* isVisible is false stores exactly o and cbs, sets isVisible true, mounts
\* the surface with them, and runs no host callback.
C11_OpenFromIdle ==
  [][\A o \in Options, hasOnClose \in BOOLEAN, act \in HostActs :
       (~isVisible /\ OpenCheckout(o, hasOnClose, act))
         => LET cbs == Callbacks(nextId, hasOnClose, act, View(callbacks))
            IN  /\ checkoutOptions' = o
                /\ callbacks' = cbs
                /\ isVisible'
                /\ RazorpayUI' = [options |-> o, callbacks |-> cbs]
                /\ got' = got
                /\ timers' = timers]_vars

C11_Witness ==
  /\ last.op = "openCheckout" /\ fx # <<>>
  /\ isVisible /\ RazorpayUI # Null
  /\ checkoutOptions = last.in /\ callbacks.onClose
  /\ \A s \in Sessions : Terminal(s) = 0 /\ got[s].onClose = 0

\* C12 (as claimed): an openCheckout call made while isVisible is false with
\* undefined options, or with the callbacks left out, raises a fault (in the
\* handler or in the render that follows it).
C12_ContractViolationFaults ==
  [][\A o \in LooseOptions, cbs \in LooseCallbacks :
       (/\ ~isVisible
        /\ o = Undefined \/ cbs = Undefined
        /\ OpenCheckoutLoose(o, cbs))
         => Faulted']_vars

\* C13 (as claimed): for every requested URL the interceptor dispatches the
\* URL to Linking.openURL and answers false exactly when the URL's scheme is
\* neither http nor https and the URL is not about:blank; otherwise it
\* answers true and dispatches nothing.
C13_NavigationByScheme ==
  [][\A url \in URLs :
       (last'.op = "navigate" /\ last'.in = url)
         => IF Scheme(url) \notin {HTTP, HTTPS} /\ url # AboutBlank
            THEN fx' = <<"Linking.openURL", "return false">> /\ links' = links + 1
            ELSE fx' = <<"return true">> /\ links' = links]_vars

\* C14: neither the interception of a URL nor the settling of a dispatch,
\* resolved or rejected, runs a host callback, throws, or changes isVisible,
\* the stored options, the stored callbacks or the surface.
C14_LinkDispatchIsolated ==
  [][(last'.op \in {"navigate", "linkResolved", "linkRejected"})
       => /\ UNCHANGED <<isVisible, checkoutOptions, callbacks, RazorpayUI, got, timers, ended>>
          /\ "throw" \notin {fx'[i] : i \in DOMAIN fx'}]_vars

C14_Witness ==
  /\ last.op = "linkRejected" /\ fx = <<"console.error">>
  /\ isVisible /\ RazorpayUI # Null

\* C15 (as claimed): isVisible goes from false to true only in an
\* openCheckout step, and a mounted surface stops being mounted only in a
\* closeCheckout step, a back action, or a SUCCESS, FAILED or DISMISSED
\* message step.
C15_OnlyNamedEventsChangeVisibility ==
  [][/\ (~isVisible /\ isVisible') => last'.op = "openCheckout"
     /\ (RazorpayUI # Null /\ RazorpayUI' = Null)
          => \/ last'.op \in {"closeCheckout", "requestClose"}
             \/ (last'.op = "message" /\ last'.in \in WidgetPosts)]_vars

\* C16: a session the host ended with closeCheckout never has its onSuccess
\* or onFailure run, whatever the widget posts afterwards.
C16_NoTerminalAfterClose ==
  \A s \in Sessions : ended[s] = "closed" => Terminal(s) = 0

C16_Witness ==
  /\ ended[1] = "closed" /\ Terminal(1) = 0
  /\ ended[2] = "success" /\ last.op = "message"

\* C17: a back action on the mounted surface leaves the state that a
\* DISMISSED message delivered in the same state leaves: the same host
\* callbacks run in the same order, isVisible is false, the stored request
\* is kept and one clear is scheduled.
C17_BackEqualsDismiss ==
  [][(last'.op = "requestClose")
       => LET c == handleMessage(Start, RazorpayUI, PostDismiss)
          IN  /\ isVisible' = c.vis /\ ~isVisible'
              /\ checkoutOptions' = c.opts /\ callbacks' = c.cbs
              /\ got' = c.got
              /\ fx' = c.fx
              /\ timers' = c.timers /\ timers' = timers + 1]_vars

C17_Witness ==
  /\ last.op = "requestClose"
  /\ fx = <<"setIsVisible(false)", "onClose", "setTimeout">>
  /\ ~isVisible /\ callbacks # Null

\* C18: a closeCheckout, SUCCESS or FAILED step on a mounted session sets
\* isVisible to false, leaves a stored request and stored callbacks in place
\* (neither is null after the step) and schedules a clear; and whenever a clear is pending while the surface
\* is hidden, either a new openCheckout makes it visible again or the stored
\* request and callbacks eventually are both null.
C18_DeferredClear ==
  /\ [][(/\ RazorpayUI # Null
         /\ \/ last'.op = "closeCheckout"
            \/ (last'.op = "message" /\ last'.in \in WidgetPosts \ {PostDismiss}))
        => /\ ~isVisible'
           /\ checkoutOptions' # Null /\ callbacks' # Null
           /\ timers' > timers]_vars
  /\ [](  (~isVisible /\ timers > 0)
        => <>(isVisible \/ (checkoutOptions = Null /\ callbacks = Null)))

C18_Witness ==
  /\ last.op = "timer" /\ timers = 0 /\ ~isVisible
  /\ checkoutOptions = Null /\ callbacks = Null
  /\ \E s \in Sessions : ended[s] = "success"

\* C19: a READY message, or any message whose tag is none of the three
\* terminal tags, runs no host callback and no setter: isVisible, the stored
\* request, the stored callbacks, the mounted surface, the callback counts
\* and the pending timers are as before.
C19_InfoMessageIsNoOp ==
  [][(last'.op = "message" /\ last'.in \in InfoPosts)
       => /\ fx' = <<>>
          /\ UNCHANGED <<isVisible, checkoutOptions, callbacks, RazorpayUI,
                          got, timers, ended>>]_vars

C19_Witness ==
  /\ last.op = "message" /\ last.in = JSONstringify([type |-> Str("READY")])
  /\ isVisible /\ RazorpayUI # Null /\ fx = <<>>

\* a value that holds a function somewhere inside
RECURSIVE HasFunction(_)
HasFunction(v) ==
  IF IsAtom(v) THEN "fn" \in DOMAIN v
  ELSE \E k \in DOMAIN v : HasFunction(v[k])

\* C20 (as claimed): for the request of every mounted surface, the serialized
\* payload has no handler field, every other field the host supplied is in
\* the payload with the value the host gave it, and the widget is opened
\* with the Bridge's handler.
C20_HandlerIsTheBridges ==
  RazorpayUI # Null =>
    LET o == RazorpayUI.options
        payload == JSONparse(optionsString(o))
    IN  /\ "handler" \notin DOMAIN payload
        /\ \A k \in DOMAIN o \ {"handler"} :
              k \in DOMAIN payload /\ payload[k] = o[k]
        /\ Get(WidgetOptions(o), "handler") = BridgeHandler

\* C20 (amended): the payload has no handler field and holds no function at
\* all; every other host field that holds no function is in the payload
\* with the value the host gave it; a host field that holds a function is
\* not serialized unchanged; the widget is opened with the Bridge's handler,
\* never the host's.
C20_HandlerIsTheBridgesAmended ==
  RazorpayUI # Null =>
    LET o == RazorpayUI.options
        payload == JSONparse(optionsString(o))
    IN  /\ "handler" \notin DOMAIN payload
        /\ ~HasFunction(payload)
        /\ DOMAIN payload \subseteq DOMAIN o
        /\ \A k \in DOMAIN o \ {"handler"} :
              IF HasFunction(o[k])
              THEN k \notin DOMAIN payload \/ payload[k] # o[k]
              ELSE k \in DOMAIN payload /\ payload[k] = o[k]
        /\ Get(WidgetOptions(o), "handler") = BridgeHandler
        /\ "handler" \in DOMAIN o => Get(WidgetOptions(o), "handler") # o.handler

C20_Witness ==
  /\ RazorpayUI # Null
  /\ Get(RazorpayUI.options, "handler") = Fn("hostHandler")
  /\ HasFunction(Get(RazorpayUI.options, "modal"))
  /\ Get(JSONparse(optionsString(RazorpayUI.options)), "modal")
       = [confirm_close |-> Bool(TRUE)]
  /\ Get(WidgetOptions(RazorpayUI.options), "handler") = BridgeHandler

\* C21: a handler of one useRazorpay() instance leaves the other instance's
\* isVisible, stored request, stored callbacks, surface, timers and callback
\* counts as they were, and each instance has its own one-session limit: an
\* openCheckout on an idle instance mounts while the other is on screen.
C21_InstancesIndependent ==
  [][/\ (last'.op \in {"peerOpenCheckout", "peerCloseCheckout", "peerTimer", "peerMessage"})
          => UNCHANGED <<isVisible, checkoutOptions, callbacks, RazorpayUI,
                         timers, got>>
     /\ (last'.op \in {"openCheckout", "closeCheckout", "timer", "message"})
          => peer' = peer
     /\ (last'.op = "peerOpenCheckout" /\ ~peer.vis)
          => peer'.vis /\ peer'.ui # Null /\ peer'.opts = last'.in
     /\ (last'.op = "openCheckout" /\ ~isVisible)
          => isVisible' /\ RazorpayUI' # Null /\ checkoutOptions' = last'.in]_vars

C21_Witness ==
  /\ last.op = "peerMessage" /\ last.in \in EachPosts \ {PostDismiss}
  /\ ~peer.vis /\ peer.got[1].onSuccess + peer.got[1].onFailure = 1
  /\ isVisible /\ RazorpayUI # Null /\ got[1] = NoCalls

\* C22 (as claimed): a timer that fires while a session is mounted (it was
\* scheduled by the cleanup or closeCheckout of an earlier session) leaves
\* the mounted session's stored request and callbacks in place and its
\* surface mounted.
C22_StaleClearSparesNewerSession ==
  [][(last'.op = "timer" /\ RazorpayUI # Null)
       => /\ checkoutOptions' = checkoutOptions
          /\ callbacks' = callbacks
          /\ RazorpayUI' = RazorpayUI]_vars

\* C23 (as claimed): of two openCheckout calls made from one render of an
\* idle controller, the request and callbacks of the first call are the ones
\* stored and mounted.
C23_RapidCallsKeepFirst ==
  [][(last'.op = "openCheckoutTwice" /\ ~isVisible)
       => /\ isVisible' /\ RazorpayUI' # Null
          /\ checkoutOptions' = last'.in
          /\ callbacks' # Null /\ callbacks'.id = nextId]_vars

\* C24 (as claimed): for every session, whatever dismissals, back actions
\* and closeCheckout calls happen, the host's onClose has run at most once.
C24_OnCloseAtMostOnce ==
  \A s \in Sessions : got[s].onClose <= 1

\* C25: in a SUCCESS (FAILED) message step the first thing done is the
\* host's onSuccess (onFailure), while the request and callbacks of the
\* session are stored; the last two things done are setIsVisible(false) and
\* the setTimeout of the deferred clear.
C25_CallbackPrecedesCleanup ==
  [][(last'.op = "message" /\ last'.in \in WidgetPosts \ {PostDismiss})
       => /\ checkoutOptions # Null /\ callbacks # Null
          /\ Len(fx') >= 3
          /\ fx'[1] = (IF Ending(last'.in) = "success" THEN "onSuccess" ELSE "onFailure")
          /\ SubSeq(fx', Len(fx') - 1, Len(fx')) = <<"setIsVisible(false)", "setTimeout">>
          /\ \A i \in 2..Len(fx') : fx'[i] \notin {"onSuccess", "onFailure"}]_vars

C25_Witness ==
  /\ last.op = "message"
  /\ fx = <<"onFailure", "setIsVisible(false)", "setTimeout">>
  /\ ~isVisible /\ callbacks # Null /\ checkoutOptions # Null

\* C26 (as claimed): a step runs host callbacks of one session only: the
\* session whose surface the message came from or whose request
\* closeCheckout found stored; and that session is the latest one opened,
\* never an earlier one.
C26_CallbacksBelongToSession ==
  [][\A s \in Sessions :
       got'[s] # got[s]
         => /\ s = nextId - 1
            /\ last'.op \in {"message", "requestClose"} => s = RazorpayUI.callbacks.id
            /\ last'.op = "closeCheckout" => callbacks # Null /\ s = callbacks.id]_vars

\* C27: when the mounted request has no onClose, a DISMISSED message, a back
\* action or a closeCheckout call runs no host callback, throws nothing,
\* sets isVisible to false and schedules one deferred clear.
C27_OnCloseOptional ==
  [][(/\ RazorpayUI # Null /\ ~RazorpayUI.callbacks.onClose
      /\ \/ last'.op \in {"closeCheckout", "requestClose"}
         \/ (last'.op = "message" /\ last'.in = PostDismiss))
       => /\ got' = got
          /\ fx' = <<"setIsVisible(false)", "setTimeout">>
          /\ ~isVisible' /\ RazorpayUI' = Null
          /\ timers' = timers + 1]_vars

C27_Witness ==
  /\ last.op = "message" /\ last.in = PostDismiss
  /\ callbacks # Null /\ ~callbacks.onClose
  /\ fx = <<"setIsVisible(false)", "setTimeout">>
  /\ ~isVisible /\ timers = 1 /\ got[callbacks.id] = NoCalls

\* every pending timer fires, one after the other
RECURSIVE FireAll(_)
FireAll(ctx) ==
  IF ctx.timers = 0 THEN ctx
  ELSE FireAll(clearState([ctx EXCEPT !.timers = @ - 1]))

\* C28: in every reachable state, a closeCheckout call of the current
\* render followed by the firing of all pending timers gives isVisible
\* false, no stored request, no stored callbacks and no pending timer; and
\* an openCheckout(o, cbs) of the render after that mounts the surface with
\* exactly o and cbs.
C28_NeverStuck ==
  \A o \in Options, hasOnClose \in BOOLEAN :
    LET closed == closeCheckout(Start, callbacks)
        idle == FireAll(closed)
        cbs == Callbacks(nextId, hasOnClose, "none", View(idle.cbs))
        opened == openCheckout([idle EXCEPT !.fx = <<>>], idle.vis, o, cbs)
    IN  /\ closed.timers = timers + 1 /\ ~closed.vis
        /\ ~idle.vis /\ idle.opts = Null /\ idle.cbs = Null /\ idle.timers = 0
        /\ Render(idle.vis, idle.opts, idle.cbs) = Null
        /\ opened.vis /\ opened.opts = o /\ opened.cbs = cbs
        /\ Render(opened.vis, opened.opts, opened.cbs) = [options |-> o, callbacks |-> cbs]
        /\ "throw" \notin {opened.fx[i] : i \in DOMAIN opened.fx}
                         \cup {closed.fx[i] : i \in DOMAIN closed.fx}

\* a state that looks stuck (isVisible with nothing mounted, nothing
\* pending), from which the close has been made and the timers have run
C28_Witness ==
  /\ last.op = "timer" /\ timers = 0
  /\ ~isVisible /\ checkoutOptions = Null /\ callbacks = Null
  /\ \E s \in Sessions : ended[s] = "open"

\* C29 (as claimed): when the host's onSuccess or onFailure calls
\* openCheckout while it runs, the call stores nothing (the stored request
\* and callbacks stay those of the session that just ended) and after the
\* step no session is open.
C29_ReentrantOpenIgnored ==
  [][(/\ last'.op = "message" /\ last'.in \in WidgetPosts \ {PostDismiss}
      /\ RazorpayUI.callbacks.act = "open")
       => /\ checkoutOptions' = checkoutOptions
          /\ callbacks' = callbacks
          /\ ~isVisible' /\ RazorpayUI' = Null]_vars

\* C30: when the host's onSuccess or onFailure throws for a SUCCESS or
\* FAILED message, the step ends there: the callback has run once more,
\* isVisible stays true, the stored request and callbacks and the mounted
\* surface are as before, and no timer is scheduled.
C30_FaultingCallbackBlocksCleanup ==
  [][(/\ last'.op = "message" /\ last'.in \in WidgetPosts \ {PostDismiss}
      /\ RazorpayUI.callbacks.act = "throw")
       => LET s == RazorpayUI.callbacks.id
          IN  /\ fx' = <<IF Ending(last'.in) = "success" THEN "onSuccess" ELSE "onFailure",
                         "throw">>
              /\ got'[s].onSuccess + got'[s].onFailure
                   = got[s].onSuccess + got[s].onFailure + 1
              /\ isVisible /\ isVisible'
              /\ UNCHANGED <<checkoutOptions, callbacks, RazorpayUI, timers>>
              /\ RazorpayUI' # Null]_vars

C30_Witness ==
  /\ last.op = "message" /\ fx = <<"onSuccess", "throw">>
  /\ isVisible /\ RazorpayUI # Null /\ timers = 0
  /\ got[RazorpayUI.callbacks.id].onSuccess = 1

\* C31: a message whose text is not JSON makes handleMessage throw and do
\* nothing else: no host callback runs (onFailure in particular), and
\* isVisible, the stored request, the stored callbacks, the surface and the
\* pending timers are as before.
C31_UndecodableMessageChangesNothing ==
  [][(last'.op = "message" /\ last'.in \in BadPosts)
       => /\ fx' = <<"throw">>
          /\ got' = got
          /\ isVisible /\ RazorpayUI # Null
          /\ UNCHANGED <<isVisible, checkoutOptions, callbacks, RazorpayUI,
                          timers, ended>>]_vars

C31_Witness ==
  /\ last.op = "message" /\ last.in = [text |-> "{type:"]
  /\ fx = <<"throw">>
  /\ isVisible /\ RazorpayUI # Null /\ got[RazorpayUI.callbacks.id] = NoCalls

\* how many setTimeout calls a handler made
Scheduled(effects) == Cardinality({i \in DOMAIN effects : effects[i] = "setTimeout"})

\* C32: a DISMISSED message step runs closeCheckout only and schedules
\* exactly one clear; a SUCCESS or FAILED message step schedules exactly one
\* clear through cleanup (one more only when the host's callback itself
\* called closeCheckout); no step other than a timer firing lowers the
\* number of pending timers, an openCheckout leaves it as it is, and a
\* firing timer takes away exactly one.
C32_OneClearPerEnding ==
  [][/\ (last'.op = "message" /\ last'.in = PostDismiss)
          => /\ fx' \in {<<"setIsVisible(false)", "onClose", "setTimeout">>,
                         <<"setIsVisible(false)", "setTimeout">>}
             /\ timers' = timers + 1
     /\ (last'.op = "message" /\ last'.in \in WidgetPosts \ {PostDismiss})
          => LET byHost == IF RazorpayUI.callbacks.act = "close" THEN 1 ELSE 0
             IN  /\ Scheduled(fx') = 1 + byHost
                 /\ timers' = timers + 1 + byHost
                 /\ fx'[Len(fx')] = "setTimeout"
     /\ last'.op = "openCheckout" => timers' = timers /\ Scheduled(fx') = 0
     /\ last'.op = "timer" => timers' = timers - 1
     /\ last'.op # "timer" => timers' = timers + Scheduled(fx')]_vars

C32_Witness ==
  /\ last.op = "message" /\ last.in = PostDismiss
  /\ timers = 2 /\ Scheduled(fx) = 1 /\ ~isVisible

\* C33: each message the injected script posts is taken by the branch of
\* handleMessage meant for it. The success post runs the host's onSuccess
\* with the response the widget gave; the payment.failed post runs the
\* host's onFailure and handleMessage reads the error the widget gave from
\* the field the script put it in; the dismiss post runs closeCheckout (and
\* the host's onClose when there is one); no post of the script throws or
\* falls through without effect.
C33_ProtocolAgreement ==
  [][last'.op = "message" =>
       LET s == RazorpayUI.callbacks.id
       IN  /\ \A r \in SuccessResponses :
                last'.in = PostSuccess(r)
                  => /\ Len(fx') > 0 /\ fx'[1] = "onSuccess"
                     /\ got'[s].onSuccess = got[s].onSuccess + 1
                     /\ got'[s].data = r
                     /\ got'[s].onFailure = got[s].onFailure
           /\ \A r \in FailedResponses :
                last'.in = PostFailed(r)
                  => /\ Len(fx') > 0 /\ fx'[1] = "onFailure"
                     /\ got'[s].onFailure = got[s].onFailure + 1
                     /\ got'[s].onSuccess = got[s].onSuccess
                     /\ Get(JSONparse(last'.in), "error") = r.error
           /\ last'.in = PostDismiss
                => /\ Len(fx') > 0 /\ fx'[1] = "setIsVisible(false)"
                   /\ got'[s].onClose
                        = got[s].onClose + (IF RazorpayUI.callbacks.onClose THEN 1 ELSE 0)
                   /\ got'[s].onSuccess = got[s].onSuccess
                   /\ got'[s].onFailure = got[s].onFailure
           /\ last'.in \in WidgetPosts
                => /\ fx' # <<>>
                   /\ "throw" \notin {fx'[i] : i \in DOMAIN fx'}]_vars

C33_Witness ==
  /\ last.op = "message" /\ last.in = PostDismiss
  /\ got[1].onSuccess = 1 /\ got[1].data \in SuccessResponses
  /\ got[2].onClose = 1 /\ fx[2] = "onClose"
====
